---- MODULE Spec2Model ----
(***************************************************************************)
(* A model of pg::lex (src/src/lex.h, src/src/lex.cpp): the Lua-style      *)
(* pattern validator, the recursive matcher with its capture store, the    *)
(* first-match function, the global match iterator and gsub.               *)
(*                                                                         *)
(* Conventions.  A code unit is a one-character string; the zero unit is   *)
(* written "NUL".  Subject and pattern positions are pointer offsets,      *)
(* counted from 0 as in the code, so unit i of a sequence q is q[i + 1].   *)
(* The pattern and the replacement are built from C strings                *)
(* (pattern( const CharT * ), string_context( const CharT * )), so the    *)
(* unit at their end position is the terminating zero.  The subject is a   *)
(* (pointer, length) view: the unit stored at s_end is not part of it and  *)
(* is whatever the caller's memory holds there (the variable guard).       *)
(***************************************************************************)
EXTENDS Integers, Sequences, FiniteSets, TLC

\* ---------------------------------------------------------------- bounds
MaxSubjLen == 3
MaxItems == 2
MaxPatLen == 4

\* ------------------------------------------------------ program constants
MAXCCALLS == 200
MAXCAPTURES == 32
max_local == 2
cap_unfinished == 0 - 1
cap_position == 0 - 2

NUL == "NUL"
NULLP == 0 - 1                 \* the null pointer, as a position
NoAlloc == <<>>                \* captures::alloc holding no buffer

\* ------------------------------------------------------------ code units
Ord ==
  [ NUL |-> 0,
    a |-> 97, b |-> 98, c |-> 99, d |-> 100, f |-> 102, g |-> 103, l |-> 108,
    p |-> 112, s |-> 115, u |-> 117, w |-> 119, x |-> 120, z |-> 122,
    A |-> 65, Z |-> 90 ]
  @@ ( "(" :> 40 @@ ")" :> 41 @@ "%" :> 37 @@ "[" :> 91 @@ "]" :> 93 @@
       "^" :> 94 @@ "$" :> 36 @@ "." :> 46 @@ "*" :> 42 @@ "+" :> 43 @@
       "-" :> 45 @@ "?" :> 63 @@ " " :> 32 @@ "@" :> 64 @@
       "0" :> 48 @@ "1" :> 49 @@ "2" :> 50 @@ "3" :> 51 @@ "4" :> 52 @@
       "5" :> 53 @@ "6" :> 54 @@ "7" :> 55 @@ "8" :> 56 @@ "9" :> 57 )

Digits == <<"0", "1", "2", "3", "4", "5", "6", "7", "8", "9">>

isupper(c) == c \in 65..90
islower(c) == c \in 97..122
isalpha(c) == isupper(c) \/ islower(c)
isdigit(c) == c \in 48..57
isalnum(c) == isalpha(c) \/ isdigit(c)
iscntrl(c) == c \in 0..31 \/ c = 127
isgraph(c) == c \in 33..126
ispunct(c) == isgraph(c) /\ ~isalnum(c)
isspace(c) == c \in 9..13 \/ c = 32
isxdigit(c) == isdigit(c) \/ c \in 65..70 \/ c \in 97..102
tolower(c) == IF isupper(c) THEN c + 32 ELSE c

\* match_class( int c, int cl ): c and cl are unit values
match_class(c, cl) ==
  LET low == tolower(cl)
      res == CASE low = Ord["a"] -> isalpha(c)
               [] low = Ord["c"] -> iscntrl(c)
               [] low = Ord["d"] -> isdigit(c)
               [] low = Ord["g"] -> isgraph(c)
               [] low = Ord["l"] -> islower(c)
               [] low = Ord["p"] -> ispunct(c)
               [] low = Ord["s"] -> isspace(c)
               [] low = Ord["u"] -> isupper(c)
               [] low = Ord["w"] -> isalnum(c)
               [] low = Ord["x"] -> isxdigit(c)
               [] low = Ord["z"] -> c = 0
               [] OTHER -> FALSE
      isclass == low \in { Ord[k] : k \in {"a", "c", "d", "g", "l", "p", "s", "u", "w", "x", "z"} }
  IN  IF ~isclass THEN cl = c
      ELSE IF islower(cl) THEN res ELSE ~res

\* *p for a pattern (or replacement) built from a C string: the unit at the
\* end position is the terminator
PatAt(pat, p) == IF p >= 0 /\ p < Len(pat) THEN pat[p + 1] ELSE NUL

\* ------------------------------------------------------ pattern validator
IsSuffix(ch) == ch \in {"*", "+", "?", "-"}
IsDigitUnit(ch) == isdigit(Ord[ch])

\* detail::find_bracket_class_end( p, ep ): the validator's checked scan
RECURSIVE find_bracket_class_end_ep(_, _, _)
find_bracket_class_end_ep(pat, p, ep) ==
  LET tail(p1) == IF PatAt(pat, p1) # "]"
                  THEN find_bracket_class_end_ep(pat, p1 + 1, ep)
                  ELSE [p |-> p1 + 1, err |-> "none"]
  IN  IF p = ep THEN [p |-> p, err |-> "pattern_missing_closing_bracket"]
      ELSE IF PatAt(pat, p) = "%"
           THEN IF p + 1 = ep THEN [p |-> p + 1, err |-> "pattern_ends_with_percent"]
                ELSE IF p + 2 = ep THEN [p |-> p + 2, err |-> "pattern_missing_closing_bracket"]
                ELSE tail(p + 2)
      ELSE tail(p)

\* the most recent unfinished capture of the validator, or -1
RECURSIVE LastUnfinished(_, _)
LastUnfinished(caps, level) ==
  IF level < 0 THEN 0 - 1
  ELSE IF caps[level + 1] = "unfinished" THEN level
  ELSE LastUnfinished(caps, level - 1)

\* the validator's test of a back-reference to captures[ i ], i = *q - '1'
InvalidReference_OpenedOnly(caps, i) == i < 0 \/ i >= Len(caps)
InvalidReference(caps, i) ==
  i < 0 \/ i >= Len(caps) \/ caps[i + 1] # "finished"

\* one iteration of the scan loop of pattern::pattern( p, l ) on the state
\* st = [q, depth, caps, oob, err]; a state past the loop (q at the end, or
\* an error thrown) is left as it is.  caps holds captures[ 0 ..
\* capture_level ); oob records a write to captures[ MAXCAPTURES ], one past
\* the array.
ValidateStep(pat, end, st) ==
  LET q == st.q
      caps == st.caps
      throw(err) == [st EXCEPT !.err = err]
      goto(q1, d) == [st EXCEPT !.q = q1, !.depth = st.depth + d]
      close(level) ==
        IF level < 0 THEN throw("capture_invalid_pattern")
        ELSE [st EXCEPT !.q = q + 1, !.depth = st.depth + 1,
                        !.caps = [caps EXCEPT ![level + 1] = "finished"]]
      frontier(br) == IF br.err # "none" THEN throw(br.err) ELSE goto(br.p, 0)
      suffix(q1) == goto(IF q1 # end /\ IsSuffix(PatAt(pat, q1)) THEN q1 + 1 ELSE q1, 1)
      set(br) == IF br.err # "none" THEN throw(br.err) ELSE suffix(br.p)
      item(q0) ==
        IF q0 # end /\ PatAt(pat, q0) = "["
        THEN set(find_bracket_class_end_ep(pat, q0, end))
        ELSE suffix(q0 + 1)
      ch == PatAt(pat, q)
      e == PatAt(pat, q + 1)
  IN
  IF st.err # "none" \/ ~(q < end) THEN st
  ELSE IF ch = "(" THEN
       IF Len(caps) > MAXCAPTURES THEN throw("capture_too_many")
       ELSE [st EXCEPT !.q = q + 1, !.depth = st.depth + 1,
                       !.caps = Append(caps, "unfinished"),
                       !.oob = st.oob \/ Len(caps) >= MAXCAPTURES]
  ELSE IF ch = ")" THEN close(LastUnfinished(caps, Len(caps) - 1))
  ELSE IF ch = "$" THEN goto(q + 1, 0)
  ELSE IF ch = "%" THEN
       IF q + 1 = end THEN throw("pattern_ends_with_percent")
       ELSE IF e = "b" THEN
            IF q + 4 > end THEN throw("balanced_no_arguments") ELSE goto(q + 4, 0)
       ELSE IF e = "f" THEN
            IF PatAt(pat, q + 2) # "[" THEN throw("frontier_no_open_bracket")
            ELSE frontier(find_bracket_class_end_ep(pat, q + 2, end))
       ELSE IF IsDigitUnit(e) THEN
            IF InvalidReference(caps, Ord[e] - Ord["1"])
            THEN throw("capture_invalid_index")
            ELSE goto(q + 2, 0)
       ELSE item(q + 1)
  ELSE item(q)

\* n iterations of the scan loop from state st; a throw ends the loop
RECURSIVE ValidateLoop(_, _, _, _)
ValidateLoop(pat, end, st, n) ==
  LET rest(mid, k) == IF mid.err # "none" THEN mid ELSE ValidateLoop(pat, end, mid, k)
  IN  IF n = 0 THEN st
      ELSE IF n = 1 THEN ValidateStep(pat, end, st)
      ELSE rest(ValidateLoop(pat, end, st, n \div 2), n - (n \div 2))

\* the scan loop of pattern::pattern( p, l ) from position q, run to its
\* end (every iteration moves q on by at least one unit), and the two tests
\* that follow the loop
ValidateFrom(pat, end, q, depth, caps, oob) ==
  LET done(st) ==
        [err |-> IF st.err # "none" THEN st.err
                 ELSE IF \E i \in 1..Len(st.caps) : st.caps[i] # "finished"
                 THEN "capture_not_finished"
                 ELSE IF st.depth > MAXCCALLS THEN "pattern_too_complex"
                 ELSE "none",
         depth |-> st.depth, capture_level |-> Len(st.caps), oob |-> st.oob]
  IN  done(ValidateLoop(pat, end,
                        [q |-> q, depth |-> depth, caps |-> caps, oob |-> oob,
                         err |-> "none"],
                        IF end > q THEN end - q ELSE 0))

\* pattern::pattern( const CharT * ): end, anchor, begin and the validation
pattern(pat) ==
  LET result(end, anchor, v) ==
        [end |-> end, anchor |-> anchor, begin |-> IF anchor THEN 1 ELSE 0, err |-> v.err,
         depth |-> v.depth, capture_level |-> v.capture_level, oob |-> v.oob]
      validated(end, anchor) ==
        result(end, anchor,
               ValidateFrom(pat, end, IF anchor THEN 1 ELSE 0, 0, <<>>, FALSE))
  IN  validated(Len(pat), 0 < Len(pat) /\ pat[1] = "^")

\* ------------------------------------------------------------------ state
VARIABLES
  subject,    \* the subject's units, [ s_begin, s_end )
  guard,      \* the unit the caller's memory holds at s_end
  pat,        \* the pattern's units, a leading '^' included
  pt,         \* the constructed pattern< CharT >: end, anchor, begin, err
  call,       \* which library function the client runs: "match", "gmatch", "gsub"
  mr,         \* match(): the returned basic_match_result, NoResult before the call
  it,         \* gmatch_iterator: pos, last_match, mr
  hist,       \* the matches the iterator has yielded so far
  gs,         \* gsub: its arguments, locals, iterator and returned string
  got,        \* the index and the outcome of the client's call mr.at( i )
  wild        \* what std::equal finds on a range that ends before it begins

vars == <<subject, guard, pat, pt, call, mr, it, hist, gs, got, wild>>

s_begin == 0
s_end == Len(subject)
p_end == pt.end

\* *s for a subject position: at s_end the unit read is not the subject's
SubjAt(s) == IF s >= 0 /\ s < Len(subject) THEN subject[s + 1] ELSE guard

\* ---------------------------------------------------------- capture store
\* capture< CharT >: begin and length, as default-initialised
NewCapture == [begin |-> NULLP, length |-> cap_unfinished]

\* captures< CharT >: local[ max_local ] and the heap buffer alloc
NewCaptures == [local |-> [i \in 1..max_local |-> NewCapture], alloc |-> NoAlloc]

\* new capture< CharT >[ MAXCAPTURES ] with the local slots copied in
AllocFromLocal(local) ==
  [i \in 1..MAXCAPTURES |-> IF i <= max_local THEN local[i] ELSE NewCapture]

\* captures::operator[]( idx ), non-const: the store after the call and the
\* slot the returned reference designates
Subscript(cs, idx) ==
  IF cs.alloc # NoAlloc THEN [cs |-> cs, ref |-> [heap |-> TRUE, idx |-> idx]]
  ELSE IF idx >= max_local
       THEN [cs |-> [cs EXCEPT !.alloc = AllocFromLocal(cs.local)],
             ref |-> [heap |-> TRUE, idx |-> idx]]
  ELSE [cs |-> cs, ref |-> [heap |-> FALSE, idx |-> idx]]

\* reading and writing through a capture reference
Load(cs, ref) ==
  IF ref.heap
  THEN IF ref.idx + 1 \in DOMAIN cs.alloc THEN cs.alloc[ref.idx + 1] ELSE NewCapture
  ELSE cs.local[ref.idx + 1]

Store(cs, ref, cap) ==
  IF ref.heap
  THEN IF ref.idx + 1 \in DOMAIN cs.alloc
       THEN [cs EXCEPT !.alloc[ref.idx + 1] = cap] ELSE cs
  ELSE [cs EXCEPT !.local[ref.idx + 1] = cap]

\* captures::operator[]( idx ) const
ConstSubscript(cs, idx) ==
  IF cs.alloc # NoAlloc
  THEN IF idx + 1 \in DOMAIN cs.alloc THEN cs.alloc[idx + 1] ELSE NewCapture
  ELSE IF idx + 1 \in DOMAIN cs.local THEN cs.local[idx + 1] ELSE NewCapture

\* captures::operator=( other ), the copy assignment: a heap buffer of other
\* is copied to a new buffer; without one only the local slots are copied
captures_assign(this, other) ==
  IF other.alloc # NoAlloc THEN [this EXCEPT !.alloc = other.alloc]
  ELSE [this EXCEPT !.local = other.local]

\* captures[ idx ].init( b ) through the non-const subscript
SetBegin(cs, idx, b) ==
  LET a == Subscript(cs, idx)
  IN  Store(a.cs, a.ref, [Load(a.cs, a.ref) EXCEPT !.begin = b])

\* captures[ idx ].len( l ), mark_position() and mark_unfinished(): the
\* length field written through the non-const subscript
SetLength(cs, idx, l) ==
  LET a == Subscript(cs, idx)
  IN  Store(a.cs, a.ref, [Load(a.cs, a.ref) EXCEPT !.length = l])

\* capture::operator basic_string_view: ( begin, max( length, 0 ) )
View(cap) == [data |-> cap.begin, size |-> IF cap.length > 0 THEN cap.length ELSE 0]

\* basic_match_result< CharT > as default-constructed
NewResult == [pos |-> <<0 - 1, 0 - 1>>, level |-> 0, captures |-> NewCaptures]

\* the copy assignment of basic_match_result< CharT >, member by member
result_assign(this, other) ==
  [pos |-> other.pos, level |-> other.level,
   captures |-> captures_assign(this.captures, other.captures)]

\* match_state::reprepstate on the result the state refers to
reprepstate(r) == [r EXCEPT !.level = 0, !.pos = <<0 - 1, 0 - 1>>]

\* match_state( str_begin, str_end, pat_end, mr ): binds to mr and resets it.
\* ev collects the assertions and over-reads the matcher runs into.
\* matchdepth is the member of that name; calls counts the calls of
\* detail::match that are running, deepest is the most calls has been, and
\* depth_at_deepest the value matchdepth had then.
match_state(r) ==
  [level |-> 0, pos |-> <<0 - 1, 0 - 1>>, captures |-> r.captures, ev |-> {},
   matchdepth |-> MAXCCALLS, calls |-> 0, deepest |-> 0, depth_at_deepest |-> MAXCCALLS]

\* the match result a match_state refers to, after the matcher has run
ResultOf(ms) == [pos |-> ms.pos, level |-> ms.level, captures |-> ms.captures]

\* ---------------------------------------------------------------- matcher
P(p) == PatAt(pat, p)

\* detail::find_bracket_class_end( p ): the matcher's unchecked scan.  A scan
\* that leaves the pattern stops at the first position past its terminator.
RECURSIVE find_bracket_class_end(_)
find_bracket_class_end(p) ==
  LET p1 == IF P(p) = "%" THEN p + 2 ELSE p
  IN  IF p1 > p_end THEN p1
      ELSE IF P(p1) # "]" THEN find_bracket_class_end(p1 + 1)
      ELSE p1 + 1

\* the do-while loop of matchbracketclass, entered at set position p
RECURSIVE bracket_loop(_, _, _)
bracket_loop(uc, p, ret) ==
  LET next(p1) == IF p1 + 1 > p_end THEN [ep |-> p1 + 1, res |-> ~ret]
                  ELSE IF P(p1 + 1) # "]" THEN bracket_loop(uc, p1 + 1, ret)
                  ELSE [ep |-> p1 + 1, res |-> ~ret]
  IN  IF P(p) = "%"
      THEN IF match_class(uc, Ord[P(p + 1)]) THEN [ep |-> p + 2, res |-> ret]
           ELSE next(p + 1)
      ELSE IF P(p + 1) = "-" /\ p + 2 < p_end /\ P(p + 2) # "]"
      THEN IF Ord[P(p)] <= uc /\ uc <= Ord[P(p + 2)] THEN [ep |-> p + 3, res |-> ret]
           ELSE next(p + 2)
      ELSE IF Ord[P(p)] = uc THEN [ep |-> p + 1, res |-> ret]
      ELSE next(p)

\* matchbracketclass( ms, c, p ), p at the set's '['
matchbracketclass(c, p) ==
  IF P(p + 1) = "^" THEN bracket_loop(Ord[c], p + 2, FALSE)
  ELSE bracket_loop(Ord[c], p + 1, TRUE)

\* single_match_pr( ms, s, p ): end of the item at p, and whether *s matches it
single_match_pr(s, p) ==
  LET not_end == s < s_end
  IN  CASE P(p) = "." -> [ep |-> p + 1, r |-> not_end]
        [] P(p) = "%" ->
             [ep |-> p + 2, r |-> not_end /\ match_class(Ord[SubjAt(s)], Ord[P(p + 1)])]
        [] P(p) = "[" ->
             IF not_end
             THEN LET br == matchbracketclass(SubjAt(s), p)
                  IN  [ep |-> find_bracket_class_end(br.ep), r |-> br.res]
             ELSE [ep |-> find_bracket_class_end(p), r |-> FALSE]
        [] OTHER -> [ep |-> p + 1, r |-> not_end /\ Ord[SubjAt(s)] = Ord[P(p)]]

\* single_match( ms, c, p )
single_match(c, p) ==
  CASE P(p) = "." -> TRUE
    [] P(p) = "%" -> match_class(Ord[c], Ord[P(p + 1)])
    [] P(p) = "[" -> matchbracketclass(c, p).res
    [] OTHER -> Ord[P(p)] = Ord[c]

\* the while( ++s < s_end ) loop of matchbalance, s already advanced
RECURSIVE balance_loop(_, _, _, _)
balance_loop(s, b, e, count) ==
  IF ~(s < s_end) THEN NULLP
  ELSE IF Ord[SubjAt(s)] = e
       THEN IF count - 1 = 0 THEN s + 1 ELSE balance_loop(s + 1, b, e, count - 1)
  ELSE IF Ord[SubjAt(s)] = b THEN balance_loop(s + 1, b, e, count + 1)
  ELSE balance_loop(s + 1, b, e, count)

\* matchbalance without the comparison of *s with the opening unit
matchbalance_AnyOpen(s, p) ==
  balance_loop(s + 1, Ord[P(p)], Ord[P(p + 1)], 1)

\* matchbalance( ms, s, p ): *s is read without a test against s_end
matchbalance(s, p) ==
  IF Ord[SubjAt(s)] # Ord[P(p)] THEN NULLP
  ELSE balance_loop(s + 1, Ord[P(p)], Ord[P(p + 1)], 1)

\* the run counted by max_expand: the largest i with single_match at s .. s+i-1
RECURSIVE max_run(_, _, _)
max_run(s, p, i) ==
  IF s + i < s_end /\ single_match(SubjAt(s + i), p) THEN max_run(s, p, i + 1) ELSE i

\* the comparison of match_capture with the capture read at its reference.
\* With NDEBUG len() gives the negative length of a position capture or of an
\* unfinished one: the test against the units left is then true and the
\* range handed to std::equal ends before it begins, which is undefined.
capture_compare(ms, s, cs, cap) ==
  LET ms1 == [ms EXCEPT !.captures = cs,
                        !.ev = @ \cup (IF cap.length < 0 THEN {"capture_len_assert"} ELSE {})
                                 \cup (IF cap.length = cap_unfinished
                                       THEN {"reference_unfinished"} ELSE {})
                                 \cup (IF cap.begin = NULLP THEN {"capture_init_assert"} ELSE {})]
  IN  IF /\ s_end - s >= cap.length
         /\ IF cap.length < 0 THEN wild = "equal"
            ELSE \A k \in 0..(cap.length - 1) : SubjAt(cap.begin + k) = SubjAt(s + k)
      THEN [s |-> s + cap.length, ok |-> TRUE, ms |-> ms1]
      ELSE [s |-> s, ok |-> FALSE, ms |-> ms1]

\* match_capture( ms, s, c ): compare with capture c - '1'
match_capture(ms, s, c) ==
  LET a == Subscript(ms.captures, Ord[c] - Ord["1"])
  IN  capture_compare(ms, s, a.cs, Load(a.cs, a.ref))

RECURSIVE match(_, _, _)
RECURSIVE match_while(_, _, _)

\* the second loop of max_expand: rest of the pattern at s + i, s + i - 1, ...
RECURSIVE max_expand_try(_, _, _, _)
max_expand_try(ms, s, i, ep) ==
  LET after(res) == IF res.ok THEN res ELSE max_expand_try(res.ms, s, i - 1, ep)
  IN  IF i < 0 THEN [s |-> s, ok |-> FALSE, ms |-> ms]
      ELSE after(match(ms, s + i, ep + 1))

max_expand(ms, s, p, ep) == max_expand_try(ms, s, max_run(s, p, 0), ep)

RECURSIVE min_expand(_, _, _, _)
min_expand(ms, s, p, ep) ==
  LET after(res) ==
        IF res.ok THEN res
        ELSE IF s # s_end /\ single_match(SubjAt(s), p) THEN min_expand(res.ms, s + 1, p, ep)
        ELSE [s |-> s, ok |-> FALSE, ms |-> res.ms]
  IN  after(match(ms, s, ep + 1))

\* start_capture( ms, s, p ), p just past the '('
start_capture(ms, s, p) ==
  LET undo(res) ==
        IF res.ok THEN res
        ELSE [s |-> res.s, ok |-> FALSE,
              ms |-> [res.ms EXCEPT
                        !.level = res.ms.level - 1,
                        !.captures = SetLength(res.ms.captures, res.ms.level - 1,
                                               cap_unfinished)]]
  IN  undo(match([ms EXCEPT
                    !.captures = SetLength(SetBegin(ms.captures, ms.level, s), ms.level,
                                           IF P(p) = ")" THEN cap_position
                                           ELSE cap_unfinished),
                    !.level = ms.level + 1],
                 s, IF P(p) = ")" THEN p + 1 ELSE p))

\* the for loop of end_capture at index i: cap is the reference taken there.
\* A loop that ends with no unfinished capture found is noted in ev.
RECURSIVE end_capture_from(_, _, _, _)
end_capture_from(ms, s, p, i) ==
  LET a == Subscript(ms.captures, i)
      undo(res) ==
        IF res.ok THEN res
        ELSE [s |-> res.s, ok |-> FALSE,
              ms |-> [res.ms EXCEPT !.captures =
                        Store(res.ms.captures, a.ref,
                              [Load(res.ms.captures, a.ref) EXCEPT
                                 !.length = cap_unfinished])]]
  IN  IF i < 0
      THEN [s |-> s, ok |-> FALSE, ms |-> [ms EXCEPT !.ev = @ \cup {"nothing_to_close"}]]
      ELSE IF Load(a.cs, a.ref).length = cap_unfinished
      THEN undo(match([ms EXCEPT !.captures =
                         Store(a.cs, a.ref,
                               [Load(a.cs, a.ref) EXCEPT
                                  !.length = s - Load(a.cs, a.ref).begin])],
                      s, p))
      ELSE end_capture_from([ms EXCEPT !.captures = a.cs], s, p, i - 1)

end_capture(ms, s, p) == end_capture_from(ms, s, p, ms.level - 1)

\* a '$' taken as the end anchor wherever it stands
IsEndAnchor_Anywhere(p) == P(p) = "$"

\* case '$' of detail::match: is the '$' the last unit of the pattern?
IsEndAnchor(p) == P(p) = "$" /\ p + 1 = p_end

\* the item-with-suffix part of detail::match, after its switch
match_item(ms, s, p) ==
  LET optional(res, ep) == IF res.ok THEN res ELSE match_while(res.ms, s, ep + 1)
      single(res) == IF res.ok THEN res ELSE [s |-> s, ok |-> FALSE, ms |-> res.ms]
      suffix(ep, r) ==
        IF r
        THEN CASE P(ep) = "+" -> max_expand(ms, s + 1, p, ep)
               [] P(ep) = "*" -> max_expand(ms, s, p, ep)
               [] P(ep) = "-" -> min_expand(ms, s, p, ep)
               [] P(ep) = "?" -> optional(match(ms, s + 1, ep + 1), ep)
               [] OTHER -> single(match(ms, s + 1, ep))
        ELSE IF P(ep) # "*" /\ P(ep) # "?" /\ P(ep) # "-"
        THEN [s |-> s, ok |-> FALSE, ms |-> ms]
        ELSE match_while(ms, s, ep + 1)
      item(sm) == suffix(sm.ep, sm.r)
  IN  item(single_match_pr(s, p))

\* the loop while( p != ms.p_end ) of detail::match with the pattern at p
match_while(ms, s, p) ==
  LET overread(m) == IF s >= s_end THEN [m EXCEPT !.ev = @ \cup {"subject_overread"}] ELSE m
      balance(res) ==
        IF res # NULLP THEN match_while(overread(ms), res, p + 4)
        ELSE [s |-> s, ok |-> FALSE, ms |-> overread(ms)]
      frontier(cur, prv) ==
        IF cur.res /\ ~prv.res
        THEN match_while(IF P(prv.ep) = "]" THEN overread(ms)
                         ELSE [overread(ms) EXCEPT !.ev = @ \cup {"frontier_assert"}],
                         s, prv.ep + 1)
        ELSE [s |-> s, ok |-> FALSE, ms |-> overread(ms)]
      backref(res) ==
        IF res.ok THEN match_while(res.ms, res.s, p + 2)
        ELSE [s |-> s, ok |-> FALSE, ms |-> res.ms]
  IN
  IF p = p_end THEN [s |-> s, ok |-> TRUE, ms |-> ms]
  ELSE IF p > p_end
  THEN [s |-> s, ok |-> FALSE, ms |-> [ms EXCEPT !.ev = @ \cup {"pattern_overrun"}]]
  ELSE IF P(p) = "(" THEN start_capture(ms, s, p + 1)
  ELSE IF P(p) = ")" THEN end_capture(ms, s, p + 1)
  ELSE IF IsEndAnchor(p) THEN [s |-> s, ok |-> s = s_end, ms |-> ms]
  ELSE IF P(p) = "%" /\ P(p + 1) = "b" THEN balance(matchbalance(s, p + 2))
  ELSE IF P(p) = "%" /\ P(p + 1) = "f"
  THEN frontier(matchbracketclass(SubjAt(s), p + 2),
                matchbracketclass(IF s = s_begin THEN NUL ELSE SubjAt(s - 1), p + 2))
  ELSE IF P(p) = "%" /\ IsDigitUnit(P(p + 1)) THEN backref(match_capture(ms, s, P(p + 1)))
  ELSE match_item(ms, s, p)

\* the level, or a capture below the level, of m1 differs from that of m0
CapturesChanged(m0, m1) ==
  \/ m1.level # m0.level
  \/ \E i \in 0..(m0.level - 1) :
       ConstSubscript(m1.captures, i) # ConstSubscript(m0.captures, i)

\* detail::match( ms, s, p ): the position reached, whether the pattern
\* matched, and the match state as the call leaves it.  No statement of the
\* matcher writes ms.matchdepth.  A call that fails and leaves the level or
\* a capture below it other than it found them is noted in ev.
match(ms, s, p) ==
  LET enter(m) ==
        [m EXCEPT !.calls = @ + 1,
                  !.deepest = IF m.calls + 1 > @ THEN m.calls + 1 ELSE @,
                  !.depth_at_deepest = IF m.calls + 1 > m.deepest THEN m.matchdepth ELSE @]
      leave(res) ==
        [res EXCEPT !.ms.calls = @ - 1,
                    !.ms.ev = IF ~res.ok /\ CapturesChanged(ms, res.ms)
                              THEN @ \cup {"captures_not_restored"} ELSE @]
  IN  leave(match_while(enter(ms), s, p))

\* ------------------------------------------------- first match: lex::match
\* a variant of RecordMatch that records the position pair only
RecordMatch_PositionOnly(ms, pos, e) ==
  [ms EXCEPT !.pos = <<pos - s_begin, e - s_begin>>]

\* the block of match() and of operator++ that records a successful match:
\* the position pair and, for a pattern without captures, capture 0
RecordMatch(ms, pos, e) ==
  IF ms.level = 0
  THEN [ms EXCEPT !.pos = <<pos - s_begin, e - s_begin>>,
                  !.captures = SetLength(SetBegin(ms.captures, ms.level, pos),
                                         ms.level, e - pos),
                  !.level = ms.level + 1]
  ELSE [ms EXCEPT !.pos = <<pos - s_begin, e - s_begin>>]

\* a variant of NextScan that steps one unit too far
NextScan_TwoUnits(pos, e) == e + 2

\* where the scan goes after a failed attempt that returned e
NextScan(pos, e) == e + 1

\* the do-while loop of pg::lex::match( str, pat ) from scan position pos
RECURSIVE match_loop(_, _)
match_loop(ms, pos) ==
  LET after(res) ==
        IF res.ok THEN ResultOf(RecordMatch(res.ms, pos, res.s))
        ELSE IF NextScan(pos, res.s) <= s_end /\ ~pt.anchor
        THEN match_loop(res.ms, NextScan(pos, res.s))
        ELSE ResultOf(res.ms)
  IN  after(match(ms, pos, pt.begin))

\* pg::lex::match( str, pat )
lex_match == match_loop(match_state(NewResult), s_begin)

\* ------------------------------------------------------- gmatch_iterator
\* gmatch_iterator( ctx, start )
gmatch_iterator(start) == [pos |-> start, last_match |-> NULLP, mr |-> NewResult]

\* a variant of Skip that forgets the test against the previous match's end
Skip_FailureOnly(ok, e, last_match) == ~ok

\* the test of operator++ after an attempt: the attempt failed, or matched
\* empty at the end of the previous match
Skip(ok, e, last_match) == ~ok \/ e = last_match

\* the while loop of gmatch_iterator::operator++; tried lists its attempts
RECURSIVE increment_loop(_, _, _, _)
increment_loop(ms, pos, last_match, tried) ==
  LET after(res, t1) ==
        IF Skip(res.ok, res.s, last_match)
        THEN increment_loop(reprepstate(res.ms), NextScan(pos, res.s), last_match, t1)
        ELSE [pos |-> res.s, last_match |-> res.s,
              mr |-> ResultOf(RecordMatch(res.ms, pos, res.s)),
              yielded |-> TRUE, tried |-> t1]
      attempt(res) == after(res, Append(tried, [pos |-> pos, ok |-> res.ok, e |-> res.s]))
  IN  IF ~(pos <= s_end)
      THEN [pos |-> pos, last_match |-> last_match, mr |-> ResultOf(ms),
            yielded |-> FALSE, tried |-> tried]
      ELSE attempt(match(ms, pos, pt.begin))

\* gmatch_iterator::operator++
increment(i) == increment_loop(match_state(i.mr) , i.pos, i.last_match, <<>>)

\* the iterator proper of an increment's outcome
IterOf(r) == [pos |-> r.pos, last_match |-> r.last_match, mr |-> r.mr]

\* pg::lex::end( c )
end_iterator == gmatch_iterator(s_end + 1)

\* gmatch_iterator::operator==, both iterators over the same context
iter_equal(i, j) == i.pos = j.pos

\* basic_match_result::size, operator bool, and at, whose err is the error
\* at throws
size(r) == r.level
is_match(r) == r.level > 0
at(r, i) ==
  IF i >= r.level THEN [data |-> NULLP, size |-> 0, err |-> "capture_out_of_range"]
  ELSE View(ConstSubscript(r.captures, i)) @@ [err |-> "none"]

\* the largest int
INT_MAX == 2147483647

\* static_cast< int >( i ) of the std::size_t i = i.hi * 2^31 + i.lo, which
\* keeps the low 32 bits
ToInt(i) == IF i.hi % 2 = 1 THEN (i.lo - INT_MAX) - 1 ELSE i.lo

\* what a read of captures[ i ] outside the store can give: a fault, or
\* whatever capture the memory there holds
StrayReads ==
  {[data |-> NULLP, size |-> 0, err |-> "fault"]}
    \cup { View([begin |-> b, length |-> l]) @@ [err |-> "none"] :
             b \in {NULLP, s_begin}, l \in {cap_unfinished, 1} }

\* basic_match_result::at( size_t i ) for every i: at( r, i ) above is the
\* case i < 2^31, where the cast gives i itself and a capture below level is
\* inside the store; the outcomes it can have otherwise
at_size_t(r, i) ==
  IF i.hi = 0 THEN {at(r, i.lo)}
  ELSE IF ToInt(i) >= r.level
  THEN {[data |-> NULLP, size |-> 0, err |-> "capture_out_of_range"]}
  ELSE StrayReads

\* the subject's units in [ from, to )
Slice(from, to) == SubSeq(subject, from + 1, to)

\* ------------------------------------------------------------------ gsub
\* detail::append_number( str, number )
RECURSIVE append_number(_, _)
append_number(str, number) ==
  LET s1 == IF number > 9 THEN append_number(str, number \div 10) ELSE str
  IN  Append(s1, Digits[(number % 10) + 1])

\* std::find( r_begin, r.end, '%' ) on the replacement
RECURSIVE find_percent(_, _)
find_percent(repl, r) ==
  IF r >= Len(repl) THEN Len(repl)
  ELSE IF repl[r + 1] = "%" THEN r
  ELSE find_percent(repl, r + 1)

\* a variant of AppendWhole that takes the text of capture 0 for the match
AppendWhole_CaptureZero(out, m) == out \o Slice(at(m, 0).data, at(m, 0).data + at(m, 0).size)

\* what %0 of the template appends: the range of the match
AppendWhole(out, m) == out \o Slice(s_begin + m.pos[1], s_begin + m.pos[2])

\* a variant of InvalidIndex that admits the index one past the last capture
InvalidIndex_OnePast(cap_index, m) == cap_index > size(m)

\* the test of a %n of the template against the match result's size
InvalidIndex(cap_index, m) == cap_index >= size(m)

\* what a %n of the template appends for the capture's view
AppendCapture(out, cap) ==
  IF cap.size = 0 THEN append_number(out, 1 + cap.data - s_begin)
  ELSE out \o Slice(cap.data, cap.data + cap.size)

\* the for loop of the template form of gsub, and the append after it:
\* the text appended for match result m, or the error thrown
RECURSIVE expand_template(_, _, _, _)
expand_template(repl, r_begin, m, out) ==
  LET find == find_percent(repl, r_begin)
      out1 == out \o SubSeq(repl, r_begin + 1, find)
      cap_char == PatAt(repl, find + 1)
      cap_index == Ord[cap_char] - Ord["1"]
  IN  IF find = Len(repl) THEN [out |-> out1, err |-> "none"]
      ELSE IF cap_char = "%" THEN expand_template(repl, find + 2, m, Append(out1, cap_char))
      ELSE IF cap_char = "0"
           THEN expand_template(repl, find + 2, m, AppendWhole(out1, m))
      ELSE IF IsDigitUnit(cap_char)
           THEN IF InvalidIndex(cap_index, m)
                THEN [out |-> out1, err |-> "capture_invalid_index"]
                ELSE IF at(m, cap_index).err # "none"
                THEN [out |-> out1, err |-> at(m, cap_index).err]
                ELSE expand_template(repl, find + 2, m, AppendCapture(out1, at(m, cap_index)))
      ELSE [out |-> out1, err |-> "percent_invalid_use_in_replacement"]

\* the callback of the function form: the caller's function, here one that
\* brackets the text of capture 0
Callback(m) == <<"[">> \o Slice(at(m, 0).data, at(m, 0).data + at(m, 0).size) \o <<"]">>

\* the replacement appended for match result m: template or function form
Replacement(form, repl, m) ==
  IF form = "template" THEN expand_template(repl, 0, m, <<>>)
  ELSE [out |-> Callback(m), err |-> "none"]

\* a variant of CopyFrom that resumes at the start of the match
CopyFrom_MatchStart(m) == s_begin + m.pos[1]

\* where gsub resumes copying after match result m
CopyFrom(m) == s_begin + m.pos[2]

\* a variant of LoopTest that stops on every count that is not positive
LoopTest_PositiveOnly(i, count) == ~iter_equal(i, end_iterator) /\ count > 0

\* whether gsub's loop goes on: ++match_it != match_end_it && count != 0
LoopTest(i, count) == ~iter_equal(i, end_iterator) /\ count # 0

\* the locals of gsub on entry
gsub_enter(form, repl, count) ==
  [pc |-> "loop", form |-> form, repl |-> repl, count |-> count, count0 |-> count,
   match_it |-> gmatch_iterator(s_begin), copy_begin |-> s_begin,
   result |-> <<>>, done |-> <<>>, err |-> "none", ret |-> <<>>]

\* one evaluation of gsub's loop condition and, when it holds, of the loop
\* body; when it fails, the tail is appended and the string returned
gsub_step(g) ==
  LET body(inc, out0, r) ==
        IF r.err # "none"
        THEN [g EXCEPT !.pc = "thrown", !.match_it = inc, !.count = g.count - 1,
                       !.result = out0 \o r.out, !.err = r.err]
        ELSE [g EXCEPT !.match_it = inc, !.count = g.count - 1,
                       !.result = out0 \o r.out,
                       !.done = Append(g.done, [a |-> inc.mr.pos[1], b |-> inc.mr.pos[2],
                                                r |-> r.out]),
                       !.copy_begin = CopyFrom(inc.mr)]
      test(inc) ==
        IF LoopTest(inc, g.count)
        THEN body(inc, g.result \o Slice(g.copy_begin, s_begin + inc.mr.pos[1]),
                  Replacement(g.form, g.repl, inc.mr))
        ELSE [g EXCEPT !.pc = "returned", !.match_it = inc,
                       !.ret = g.result \o Slice(g.copy_begin, s_end)]
  IN  test(IterOf(increment(g.match_it)))

\* ------------------------------------------------------------ input sets
SubjUnits == {"a", "b"}
GuardUnits == {NUL, "a"}

Subjects == UNION { [1..n -> SubjUnits] : n \in 0..MaxSubjLen }

RECURSIVE Flatten(_)
Flatten(q) == IF q = <<>> THEN <<>> ELSE Head(q) \o Flatten(Tail(q))

\* the patterns made of at most MaxItems of the given pattern fragments,
\* each also with a leading anchor
PatternsOf(items) ==
  LET plain == { Flatten(q) : q \in UNION { [1..n -> items] : n \in 0..MaxItems } }
  IN  plain \cup { <<"^">> \o q : q \in plain }

MatchItems ==
  { <<"a">>, <<"b">>, <<"a", "*">>, <<"a", "-">>, <<"b", "?">>, <<".", "+">>,
    <<"(", "a", "*", ")">>, <<"%", "1">>, <<"%", "b", "a", "a">>, <<"$">>,
    <<"%", "f", "[", "a", "]">>, <<"[", "^", "a", "]">> }

GmatchItems ==
  { <<"a">>, <<"b">>, <<"a", "*">>, <<"a", "-">>, <<"b", "?">>, <<".", "+">>,
    <<"(", "a", "*", ")">>, <<"(", ")">>, <<"%", "b", "a", "a">>, <<"$">>,
    <<"%", "f", "[", "a", "]">>, <<"[", "^", "a", "]">> }

\* fragments with up to three captures, the third one opened after the
\* first has been closed, and a back-reference
CaptureItems ==
  { <<"a">>, <<"b">>, <<"(", "a", "*", ")">>, <<"(", ")">>, <<"%", "1">>,
    <<"(", ")", "(", ")", "a">>, <<"(", "a", ")", "(", "b", "?", ")">> }

\* fragments with bracket sets of several items, in a frontier and as an
\* item, and balanced pairs of two different units and of one unit
SetItems ==
  { <<"a">>, <<"b">>, <<"[", "%", "a", "%", "]", "]">>, <<"[", "%", "u", "%", "]", "]">>,
    <<"%", "f", "[", "^", "a", "b", "]">>, <<"%", "f", "[", "^", "a", "]">>,
    <<"%", "b", "a", "b">>, <<"%", "b", "a", "a">> }

\* fragments with a lazy item inside and outside a capture, and up to three
\* captures
LazyItems ==
  { <<"a">>, <<"b">>, <<"a", "-">>, <<".", "-">>, <<"(", "a", "-", ")">>,
    <<"(", ")", "(", ")", "b">> }

\* fragments with one and with three captures: results in the inline slots
\* and results in the heap buffer
AssignItems ==
  { <<"(", "a", ")">>, <<"(", "b", ")">>, <<"(", ")", "(", ")", "(", "a", ")">> }

\* fragments with a '$', with and without a suffix, and the subjects with
\* that unit
AnchorItems ==
  { <<"a">>, <<"$">>, <<"$", "*">>, <<"$", "?">>, <<"$", "-">>, <<"$", "+">> }

AnchorSubjects == UNION { [1..n -> {"a", "$"}] : n \in 0..MaxSubjLen }

\* the outcomes of std::equal( c_begin, c_end, s ) with c_end before c_begin
WildOutcomes == {"equal", "differ"}

GsubItems ==
  { <<"a">>, <<"a", "*">>, <<"(", "a", "*", ")">>, <<"(", ")">>, <<"(", ".", ")">> }

Templates ==
  { <<"%", "0">>, <<"%", "1">>, <<"%", "2">>, <<"x", "%", "%">>, <<"%", "1", "%", "0">>,
    <<"%", "a">> }

Counts == {0 - 1, 0, 1, 2}

\* the units of the patterns handed to the pattern constructor alone
PatUnits == {"[", "]", "^", "%", "a", "(", ")", "0", "1", "2", "b", "f"}

\* n copies of the units q
RECURSIVE Repeat(_, _)
Repeat(q, n) == IF n = 0 THEN <<>> ELSE q \o Repeat(q, n - 1)

\* the most captures a constructed pattern is given here
MaxOpens == MAXCAPTURES + 2

\* every pattern of at most MaxPatLen units, and the patterns of up to
\* MaxOpens captures, in sequence and nested
ValidatorPatterns ==
  UNION { [1..n -> PatUnits] : n \in 0..MaxPatLen }
    \cup { Repeat(<<"(", ")">>, n) : n \in 0..MaxOpens }
    \cup { Repeat(<<"(">>, n) \o Repeat(<<")">>, n) : n \in 0..MaxOpens }

\* ------------------------------------------------------- the state machine
\* no pattern< CharT > constructed yet
NoPattern == [err |-> "unconstructed"]
NoReturn == [err |-> "uncalled"]

\* the indices the client passes to at: i.hi * 2^31 + i.lo
Indices == [hi : 0..2, lo : 0..2]
NoResult == [pos |-> <<0 - 2, 0 - 2>>, level |-> 0 - 1, captures |-> NewCaptures]
NoGsub == [pc |-> "idle"]
NoHist == [yields |-> <<>>, tried |-> <<>>, calls |-> 0, entry |-> <<>>]

InitWith(api, patterns, guards, wilds) ==
  /\ subject \in Subjects
  /\ guard \in guards
  /\ wild \in wilds
  /\ pat \in patterns
  /\ pt = pattern(pat)
  /\ pt.err = "none"
  /\ call = api
  /\ mr = NoResult
  /\ it = gmatch_iterator(s_begin)
  /\ hist = NoHist
  /\ gs = NoGsub
  /\ got = NoReturn

\* the client calls pg::lex::match( subject, pattern )
Match ==
  /\ call = "match"
  /\ mr = NoResult
  /\ mr' = lex_match
  /\ UNCHANGED <<subject, guard, pat, pt, call, it, hist, gs, got, wild>>

\* the client calls mr.at( i ) on the result match() returned
At ==
  /\ call = "match"
  /\ mr # NoResult
  /\ got = NoReturn
  /\ \E i \in Indices : \E o \in at_size_t(mr, i) : got' = [i |-> i, o |-> o, err |-> o.err]
  /\ UNCHANGED <<subject, guard, pat, pt, call, mr, it, hist, gs, wild>>

\* the client increments its gmatch_iterator (begin( c ) does the first one)
Increment ==
  LET step(r) ==
        /\ it' = IterOf(r)
        /\ hist' = [yields |-> IF r.yielded
                               THEN Append(hist.yields, [a |-> r.mr.pos[1], b |-> r.mr.pos[2]])
                               ELSE hist.yields,
                    tried |-> hist.tried \o r.tried,
                    calls |-> hist.calls + 1,
                    entry |-> Append(hist.entry, it.pos)]
  IN  /\ call = "gmatch"
      /\ ~iter_equal(it, end_iterator)
      /\ step(increment(it))
      /\ UNCHANGED <<subject, guard, pat, pt, call, mr, gs, got, wild>>

\* the client calls gsub( subject, pattern, repl or func, count )
GsubCall ==
  /\ call = "gsub"
  /\ gs.pc = "idle"
  /\ \E count \in Counts :
       \/ \E repl \in Templates : gs' = gsub_enter("template", repl, count)
       \/ gs' = gsub_enter("function", <<>>, count)
  /\ UNCHANGED <<subject, guard, pat, pt, call, mr, it, hist, got, wild>>

\* gsub runs its loop once more, or leaves it and returns
GsubStep ==
  /\ call = "gsub"
  /\ gs.pc = "loop"
  /\ gs' = gsub_step(gs)
  /\ UNCHANGED <<subject, guard, pat, pt, call, mr, it, hist, got, wild>>

\* the client, holding the result of a match, constructs a second pattern
Second ==
  /\ call = "match"
  /\ mr # NoResult
  /\ got = NoReturn
  /\ pat' \in PatternsOf(AssignItems)
  /\ pt' = pattern(pat')
  /\ got' = [err |-> "second"]
  /\ UNCHANGED <<subject, guard, call, mr, it, hist, gs, wild>>

\* the client matches the subject with the second pattern and assigns the
\* result to the match result it holds: mr = match( subject, second )
Assign ==
  /\ call = "match"
  /\ got = [err |-> "second"]
  /\ mr' = result_assign(mr, lex_match)
  /\ got' = [err |-> "assigned"]
  /\ UNCHANGED <<subject, guard, pat, pt, call, it, hist, gs, wild>>

\* the client is about to construct pattern< CharT >( pat )
InitPattern ==
  /\ subject = <<>>
  /\ guard = NUL
  /\ wild = "differ"
  /\ pat \in ValidatorPatterns
  /\ pt = NoPattern
  /\ call = "pattern"
  /\ mr = NoResult
  /\ it = gmatch_iterator(s_begin)
  /\ hist = NoHist
  /\ gs = NoGsub
  /\ got = NoReturn

\* pattern< CharT >( pat ): the constructor returns, or throws pt.err
Construct ==
  /\ call = "pattern"
  /\ pt = NoPattern
  /\ pt' = pattern(pat)
  /\ UNCHANGED <<subject, guard, pat, call, mr, it, hist, gs, got, wild>>

NextPattern == Construct
SpecPattern == InitPattern /\ [][NextPattern]_vars

InitMatch == InitWith("match", PatternsOf(MatchItems), GuardUnits, {"differ"})
NextMatch == Match
SpecMatch == InitMatch /\ [][NextMatch]_vars

InitCaptures == InitWith("match", PatternsOf(CaptureItems), {NUL}, WildOutcomes)
NextCaptures == Match
SpecCaptures == InitCaptures /\ [][NextCaptures]_vars

NextAt == Match \/ At
SpecAt == InitMatch /\ [][NextAt]_vars

InitGmatch == InitWith("gmatch", PatternsOf(GmatchItems), GuardUnits, {"differ"})
NextGmatch == Increment
SpecGmatch == InitGmatch /\ [][NextGmatch]_vars

InitGsub == InitWith("gsub", PatternsOf(GsubItems), {NUL}, {"differ"})
NextGsub == GsubCall \/ GsubStep
SpecGsub == InitGsub /\ [][NextGsub]_vars

InitSets == InitWith("match", PatternsOf(SetItems), GuardUnits, {"differ"})
NextSets == Match
SpecSets == InitSets /\ [][NextSets]_vars

InitLazy == InitWith("match", PatternsOf(LazyItems), {NUL}, {"differ"})
NextLazy == Match
SpecLazy == InitLazy /\ [][NextLazy]_vars

\* the client has constructed a pattern with '$' units, whatever the
\* constructor made of it
InitAnchor ==
  /\ subject \in AnchorSubjects
  /\ guard = NUL
  /\ wild = "differ"
  /\ pat \in PatternsOf(AnchorItems)
  /\ pt = pattern(pat)
  /\ call = "match"
  /\ mr = NoResult
  /\ it = gmatch_iterator(s_begin)
  /\ hist = NoHist
  /\ gs = NoGsub
  /\ got = NoReturn

NextAnchor == Match
SpecAnchor == InitAnchor /\ [][NextAnchor]_vars

InitAssign == InitWith("match", PatternsOf(AssignItems), {NUL}, {"differ"})
NextAssign == Match \/ Second \/ Assign
SpecAssign == InitAssign /\ [][NextAssign]_vars

Init ==
  \/ InitPattern \/ InitMatch \/ InitCaptures \/ InitSets \/ InitLazy \/ InitAnchor
  \/ InitAssign
  \/ InitGmatch \/ InitGsub
Next == Construct \/ Match \/ At \/ Second \/ Assign \/ Increment \/ GsubCall \/ GsubStep
Spec == Init /\ [][Next]_vars

\* ------------------------------------------------------------------ claims
\* the outcome of one matcher attempt at start position q, from a fresh state
AttemptAt(q) == match(match_state(NewResult), q, pt.begin)
MatchesAt(q) == AttemptAt(q).ok
StartsFrom(q) == { k \in q..s_end : MatchesAt(k) }
Least(S) == CHOOSE k \in S : \A j \in S : k <= j

\* C1: match( str, pat ) returns an empty result only if the pattern matches
\* at no start position in 0 .. |S|, and otherwise the match at the smallest
\* start position at which it matches; an anchored pattern is tried at 0 only.
C1_FirstMatchIsLeftmost ==
  mr # NoResult =>
    LET starts == IF pt.anchor THEN StartsFrom(0) \cap {0} ELSE StartsFrom(0)
    IN  IF starts = {} THEN ~is_match(mr) /\ mr.pos = <<0 - 1, 0 - 1>>
        ELSE /\ is_match(mr)
             /\ mr.pos = <<Least(starts), AttemptAt(Least(starts)).s>>

\* C1, the part the code keeps: an anchored pattern is tried at position 0 only

\* C2: over an anchored pattern the iterator yields at most one match, that
\* match starts at subject position 0, and when the pattern does not match
\* at position 0 the first ++ already leaves the iterator at the end.
C2_AnchoredYieldsAtMostOne ==
  (call = "gmatch" /\ pt.anchor) =>
    /\ Len(hist.yields) <= 1
    /\ \A k \in 1..Len(hist.yields) : hist.yields[k].a = 0
    /\ (hist.calls >= 1 /\ ~MatchesAt(0)) => iter_equal(it, end_iterator)

\* C3: when the attempt at scan position pos fails, the next attempt starts
\* at exactly pos + 1, and every yielded match is the leftmost match starting
\* at or after the position the scan was at when ++ was entered.
C3_FailedAttemptAdvancesByOne ==
  call = "gmatch" =>
    /\ \A k \in 1..Len(hist.tried) :
         (~hist.tried[k].ok /\ hist.tried[k].pos + 1 <= s_end) =>
           /\ k < Len(hist.tried)
           /\ hist.tried[k + 1].pos = hist.tried[k].pos + 1
    /\ \A k \in 1..Len(hist.yields) :
         \A j \in hist.entry[k]..(hist.yields[k].a - 1) :
           MatchesAt(j) => (k > 1 /\ j = hist.entry[k] /\ AttemptAt(j).s = j)

RECURSIVE Yielded(_)
Yielded(i) ==
  IF iter_equal(i, end_iterator) THEN <<>>
  ELSE LET r == increment(i)
       IN  IF r.yielded THEN <<r.mr>> \o Yielded(IterOf(r)) ELSE <<>>

AllMatches == Yielded(gmatch_iterator(s_begin))

\* S[from..a_idx) + r_idx + ... + r_n + S[b_n..|S|) over the match results ys
RECURSIVE Splice(_, _, _, _, _, _)
Splice(ys, form, repl, n, idx, from) ==
  IF idx > n THEN Slice(from, s_end)
  ELSE Slice(from, ys[idx].pos[1]) \o Replacement(form, repl, ys[idx]).out
         \o Splice(ys, form, repl, n, idx + 1, ys[idx].pos[2])

Min(x, y) == IF x <= y THEN x ELSE y

\* C6: the string gsub returns is S[0..a_1) + r_1 + S[b_1..a_2) + ... + r_k +
\* S[b_k..|S|) over the matches the iterator yields, in order, each match
\* (also an empty one) contributing its replacement exactly once.
C6_OutputIsSplice ==
  (call = "gsub" /\ gs.pc = "returned") =>
    LET ys == AllMatches
        k == Len(gs.done)
    IN  /\ k <= Len(ys)
        /\ gs.count0 < 0 => k = Len(ys)
        /\ \A i \in 1..k :
             gs.done[i] = [a |-> ys[i].pos[1], b |-> ys[i].pos[2],
                           r |-> Replacement(gs.form, gs.repl, ys[i]).out]
        /\ gs.ret = Splice(ys, gs.form, gs.repl, k, 1, 0)

\* C6's case: an unlimited gsub has returned after replacing several matches,
\* one of them empty, with text of the subject between two of them
C6_Witness ==
  /\ call = "gsub" /\ gs.pc = "returned" /\ gs.count0 < 0
  /\ Len(gs.done) >= 2
  /\ \E i \in 1..Len(gs.done) : gs.done[i].a = gs.done[i].b
  /\ \E i \in 1..(Len(gs.done) - 1) : gs.done[i].b < gs.done[i + 1].a

C8_CountLimitsReplacements ==
  (call = "gsub" /\ gs.pc = "returned") =>
    LET ys == AllMatches
        k == IF gs.count0 < 0 THEN Len(ys) ELSE Min(gs.count0, Len(ys))
        last == IF k = 0 THEN 0 ELSE ys[k].pos[2]
    IN  /\ Len(gs.done) = k
        /\ \A i \in 1..Min(k, Len(gs.done)) :
             gs.done[i].a = ys[i].pos[1] /\ gs.done[i].b = ys[i].pos[2]
        /\ Len(gs.ret) >= s_end - last
        /\ SubSeq(gs.ret, Len(gs.ret) - (s_end - last) + 1, Len(gs.ret)) = Slice(last, s_end)
        /\ gs.count0 = 0 => gs.ret = subject

\* C8's case: the count ran out before the matches did
C8_Witness ==
  /\ call = "gsub" /\ gs.pc = "returned"
  /\ gs.count0 = 1
  /\ Len(gs.done) = 1
  /\ Len(AllMatches) >= 3
  /\ gs.ret # subject

\* the text the claim C9 gives a reference to raw capture cap
ClaimedCaptureText(cap) ==
  IF cap.length = cap_position THEN append_number(<<>>, 1 + cap.begin - s_begin)
  ELSE Slice(cap.begin, cap.begin + cap.length)

\* C9: in the template form %n emits the text of capture n, and the 1-based
\* offset of the captured position if and only if capture n is a position
\* capture; a finished capture of length 0 or an empty synthesized whole-match
\* capture contributes the empty string.
C9_OffsetOnlyForPositionCapture ==
  (call = "gsub" /\ gs.pc \in {"loop", "returned"} /\ gs.form = "template"
     /\ gs.repl = <<"%", "1">>) =>
    \A i \in 1..Len(gs.done) :
      gs.done[i].r = ClaimedCaptureText(ConstSubscript(AllMatches[i].captures, 0))

\* the capture numbers n of the references %n, n in 1..9, of a template
RECURSIVE Refs(_, _)
Refs(repl, r) ==
  IF r >= Len(repl) THEN {}
  ELSE IF repl[r + 1] # "%" THEN Refs(repl, r + 1)
  ELSE LET ch == PatAt(repl, r + 1)
       IN  (IF IsDigitUnit(ch) /\ ch # "0" THEN {Ord[ch] - Ord["0"]} ELSE {})
             \cup Refs(repl, r + 2)

\* C10: in the template form a reference %n raises capture_invalid_index
\* exactly when the current match result has fewer than n captures; otherwise
\* capture n, index n - 1, is substituted; when the error is raised no string
\* is returned.
C10_InvalidIndexIffBeyondSize ==
  (call = "gsub" /\ gs.pc \in {"thrown", "returned"} /\ gs.form = "template") =>
    LET refs == Refs(gs.repl, 0)
    IN  /\ gs.pc = "thrown" =>
             /\ gs.err = "capture_invalid_index" <=>
                  \E n \in refs : n > size(gs.match_it.mr)
             /\ gs.ret = <<>>
        /\ gs.pc = "returned" =>
             \A i \in 1..Len(gs.done) :
               /\ \A n \in refs : n <= size(AllMatches[i])
               /\ \A n \in 1..9 :
                    gs.repl = <<"%", Digits[n + 1]>> =>
                      LET cap == at(AllMatches[i], n - 1)
                      IN  gs.done[i].r \in { Slice(cap.data, cap.data + cap.size),
                                             append_number(<<>>, 1 + cap.data - s_begin) }

\* C10's case: %2 met a match result with one capture, after gsub had copied
\* the text before the match
C10_Witness ==
  /\ call = "gsub" /\ gs.pc = "thrown" /\ gs.err = "capture_invalid_index"
  /\ gs.repl = <<"%", "2">>
  /\ size(gs.match_it.mr) = 1
  /\ gs.result # <<>>

\* ---------------------------------------------------------------- validator

\* the pattern has been given to the constructor, which returned or threw
Constructed == call = "pattern" /\ pt # NoPattern

\* C11: the validator rejects the empty set [] and the empty negated set [^]
\* (as whole patterns or followed by no further ]) with
\* pattern_missing_closing_bracket: a ] directly after [ or [^ does not close
\* the set.
C11_EmptySetRejected ==
  (/\ Constructed
   /\ \/ Len(pat) >= 2 /\ SubSeq(pat, 1, 2) = <<"[", "]">>
         /\ \A k \in 3..Len(pat) : pat[k] # "]"
      \/ Len(pat) >= 3 /\ SubSeq(pat, 1, 3) = <<"[", "^", "]">>
         /\ \A k \in 4..Len(pat) : pat[k] # "]")
  => pt.err = "pattern_missing_closing_bracket"

\* a set whose content starts at position p (1-based) of q is not closed: no
\* unescaped ] follows, a % skipping the unit after it
RECURSIVE Unclosed(_, _)
Unclosed(q, p) ==
  IF p > Len(q) THEN TRUE
  ELSE IF q[p] = "%" THEN Unclosed(q, p + 2)
  ELSE IF q[p] = "]" THEN FALSE
  ELSE Unclosed(q, p + 1)

\* C12: a pattern with a bracket set that no unescaped ] closes before the
\* pattern ends is rejected with pattern_missing_closing_bracket, also when
\* the pattern ends with % inside the set ([a%) or with an escaped ] ([a%]).
\* Stated for the sets that open the pattern or follow literal a's, and whose
\* content does not begin with ] (the case of C11).
C12_UnclosedSetRejected ==
  (/\ Constructed
   /\ \E k \in 1..Len(pat) :
        LET c == IF k < Len(pat) /\ pat[k + 1] = "^" THEN k + 2 ELSE k + 1
        IN  /\ \A j \in 1..(k - 1) : pat[j] = "a"
            /\ pat[k] = "["
            /\ c <= Len(pat) => pat[c] # "]"
            /\ Unclosed(pat, c))
  => pt.err = "pattern_missing_closing_bracket"

\* the number of ( units of q in positions lo..hi
Opens(q, lo, hi) == Cardinality({k \in lo..hi : k \in 1..Len(q) /\ q[k] = "("})

\* the number of ) units of q in positions lo..hi
Closes(q, lo, hi) == Cardinality({k \in lo..hi : k \in 1..Len(q) /\ q[k] = ")"})

\* q consists of the units ( and ) only
OnlyCaptures(q) == \A k \in 1..Len(q) : q[k] \in {"(", ")"}

\* C13: a pattern that opens more than MAXCAPTURES captures is rejected with
\* capture_too_many, so an accepted pattern has at most MAXCAPTURES captures
\* and the validator writes no capture slot of index MAXCAPTURES or more.
C13_TooManyCapturesRejected ==
  (Constructed /\ OnlyCaptures(pat)) =>
    /\ Opens(pat, 1, Len(pat)) > MAXCAPTURES => pt.err = "capture_too_many"
    /\ pt.err = "none" => pt.capture_level <= MAXCAPTURES /\ ~pt.oob

\* capture d of q (the d-th ( unit) is opened and closed before position p
ClosedBefore(q, d, p) ==
  \E i \in 1..(p - 1) :
    /\ q[i] = "(" /\ Opens(q, 1, i) = d
    /\ \E j \in (i + 1)..(p - 1) : Opens(q, i, j) = Closes(q, i, j)

\* position p of q holds a back-reference %d that follows units a, ( and )
\* only, none of them a ) without an open capture
ReferenceAt(q, p) ==
  /\ p + 1 <= Len(q) /\ q[p] = "%" /\ q[p + 1] \in {"0", "1", "2"}
  /\ \A k \in 1..(p - 1) : /\ q[k] \in {"a", "(", ")"}
                           /\ Closes(q, 1, k) <= Opens(q, 1, k)

\* C14: a back-reference %d is accepted only if d is in 1..9 and capture d has
\* been opened and closed earlier in the pattern; %0, a reference to a capture
\* not yet opened and a reference to a capture still open are rejected with
\* capture_invalid_index.
C14_BackReferenceNeedsClosedCapture ==
  Constructed =>
    \A p \in 1..Len(pat) :
      ReferenceAt(pat, p) =>
        LET d == Ord[pat[p + 1]] - Ord["0"]
        IN  /\ ~(d >= 1 /\ ClosedBefore(pat, d, p)) => pt.err = "capture_invalid_index"
            /\ (d >= 1 /\ ClosedBefore(pat, d, p)) => pt.err # "capture_invalid_index"

\* C14's case: (%1) refers to capture 1 while it is still open, and is
\* rejected
C14_Witness ==
  /\ Constructed
  /\ pat = <<"(", "%", "1", ")">>
  /\ pt.err = "capture_invalid_index"

\* ------------------------------------------------------------------ matcher

\* C15: for an accepted pattern the calls of the matcher never nest deeper
\* than MAXCCALLS: each recursion takes one from the depth counter, which
\* started at MAXCCALLS, and a match that would go deeper ends with
\* pattern_too_complex.  So at the deepest point of an attempt the counter
\* has gone down by the number of calls nested in the attempt's first call,
\* at least.
C15_DepthCounterBoundsRecursion ==
  (call = "match" /\ mr # NoResult) =>
    \A q \in s_begin..s_end :
      LET counted(m) == /\ m.deepest - 1 <= MAXCCALLS
                        /\ m.depth_at_deepest + (m.deepest - 1) <= MAXCCALLS
      IN  counted(AttemptAt(q).ms)

\* the number of captures of the pattern (no item of the patterns matched
\* here escapes a parenthesis or has one in a set)
NumCaptures == Opens(pat, 1, Len(pat))

\* C16: a successful match of a pattern without captures has size() = 1 and
\* capture 0 is the matched range [a, b); a successful match of a pattern
\* with k >= 1 captures has size() = k; a failed match has size() = 0,
\* position (-1, -1) and converts to false.
C16_ResultSizeByCaptures ==
  (call = "match" /\ mr # NoResult) =>
    IF mr.pos # <<0 - 1, 0 - 1>>
    THEN /\ is_match(mr)
         /\ NumCaptures = 0 =>
              /\ size(mr) = 1
              /\ at(mr, 0) = [data |-> s_begin + mr.pos[1],
                              size |-> mr.pos[2] - mr.pos[1], err |-> "none"]
         /\ NumCaptures >= 1 => size(mr) = NumCaptures
    ELSE size(mr) = 0 /\ ~is_match(mr)

\* C16's case: a pattern without captures matched the units [1, 2) of the
\* subject
C16_Witness ==
  /\ call = "match" /\ mr # NoResult
  /\ NumCaptures = 0
  /\ mr.pos = <<1, 2>>
  /\ size(mr) = 1

\* C17: at( i ) raises capture_out_of_range for every index i >= size(),
\* the indices of 2^31 and more included, and returns capture i for every
\* i < size().
C17_AtChecksEveryIndex ==
  (call = "match" /\ got # NoReturn) =>
    IF got.i.hi > 0 \/ got.i.lo >= size(mr)
    THEN got.err = "capture_out_of_range"
    ELSE got.o = View(ConstSubscript(mr.captures, got.i.lo)) @@ [err |-> "none"]

\* C19: a call of the matcher that returns failure leaves the capture level
\* and every capture below it as they were on entry, also when a third
\* capture has moved the store from the two inline slots to the heap
\* meanwhile; after a failed attempt at a start position the level is 0.
C19_FailureRestoresCaptures ==
  (call = "match" /\ mr # NoResult) =>
    \A q \in s_begin..s_end :
      LET restored(res) ==
            /\ "captures_not_restored" \notin res.ms.ev
            /\ ~res.ok => res.ms.level = 0
      IN  restored(AttemptAt(q))

\* C20: the frontier %f[set] at subject position s succeeds iff prev is not
\* in the set and curr is, where prev is the zero unit at s_begin and S[s - 1]
\* otherwise, and curr is S[s] below s_end and the zero unit at s_end,
\* whatever follows the subject in memory; the matcher reads no subject unit
\* at a position of s_end or more.  The first part is stated for the pattern
\* %f[a], the second for the patterns without %b.
C20_FrontierTakesZeroAtEnd ==
  (call = "match" /\ mr # NoResult) =>
    \A q \in s_begin..s_end :
      LET prev == IF q = s_begin THEN NUL ELSE subject[q]
          curr == IF q < s_end THEN subject[q + 1] ELSE NUL
          frontier(res) ==
            /\ pat = <<"%", "f", "[", "a", "]">> =>
                 (res.ok <=> (prev # "a" /\ curr = "a"))
            /\ (\A k \in 1..(Len(pat) - 1) : ~(pat[k] = "%" /\ pat[k + 1] = "b")) =>
                 "subject_overread" \notin res.ms.ev
      IN  frontier(AttemptAt(q))

\* C18: a non-empty match result has a range [a, b) with 0 <= a <= b <= |S|;
\* every finished capture in it lies inside the subject; every position
\* capture has the reported length 0 and a start in [0, |S|].
C18_ResultInsideSubject ==
  (call = "match" /\ mr # NoResult /\ is_match(mr)) =>
    /\ 0 <= mr.pos[1] /\ mr.pos[1] <= mr.pos[2] /\ mr.pos[2] <= s_end
    /\ \A i \in 0..(size(mr) - 1) :
         LET cap == ConstSubscript(mr.captures, i)
         IN  /\ cap.length >= 0 =>
                  cap.begin >= s_begin /\ cap.begin + cap.length <= s_end
             /\ cap.length = cap_position =>
                  /\ View(cap).size = 0
                  /\ s_begin <= cap.begin /\ cap.begin <= s_end

\* C21: when the frontier %f[set] at the start of the pattern succeeds at a
\* position, the assertion that the position returned for the set is at its
\* closing ']' holds, and the attempt goes on with the rest of the pattern,
\* the part past the closing ']', at the same subject position: it succeeds
\* iff the rest matches there, and ends where the rest ends.
C21_FrontierContinuesPastSet ==
  (call = "match" /\ mr # NoResult /\ P(pt.begin) = "%" /\ P(pt.begin + 1) = "f") =>
    \A q \in s_begin..s_end :
      LET p == pt.begin + 2
          cur == matchbracketclass(SubjAt(q), p)
          prv == matchbracketclass(IF q = s_begin THEN NUL ELSE SubjAt(q - 1), p)
          after(res, rest) ==
            /\ "frontier_assert" \notin res.ms.ev
            /\ res.ok = rest.ok
            /\ res.ok => res.s = rest.s
      IN  (cur.res /\ ~prv.res) =>
            after(AttemptAt(q),
                  match(match_state(NewResult), q, find_bracket_class_end_ep(pat, p, p_end).p))

\* C22: in no attempt is a back-reference evaluated on a capture whose length
\* is negative (the assertion of capture::len holds).  A back-reference to a
\* finished capture consumes as many units as the capture holds and succeeds
\* iff they equal the captured text: (a*)%1 at q takes the largest k with 2k
\* units 'a' from q on and ends at q + 2k.  A back-reference to a position
\* capture succeeds and consumes nothing: ()%1 matches empty at every q.
C22_BackReferenceToFinishedCapture ==
  (call = "match" /\ mr # NoResult) =>
    \A q \in s_begin..s_end :
      LET run == max_run(q, 1, 0)
          backref(res) ==
            /\ "capture_len_assert" \notin res.ms.ev
            /\ pat = <<"(", "a", "*", ")", "%", "1">> =>
                 res.ok /\ res.s = q + 2 * (run \div 2)
            /\ pat = <<"(", ")", "%", "1">> => res.ok /\ res.s = q
      IN  backref(AttemptAt(q))

\* C23: on a pattern the validator has accepted, no attempt of the matcher
\* meets a ')' with no unfinished capture to close, none evaluates a
\* back-reference to a capture that was never opened or is still unfinished,
\* and every capture of a successful match result is finished or a position
\* capture.
C23_MatcherAgreesWithValidator ==
  (call = "match" /\ mr # NoResult) =>
    /\ pt.err = "none"
    /\ \A q \in s_begin..s_end :
         LET agree(res) ==
               /\ "nothing_to_close" \notin res.ms.ev
               /\ "reference_unfinished" \notin res.ms.ev
               /\ "capture_init_assert" \notin res.ms.ev
         IN  agree(AttemptAt(q))
    /\ is_match(mr) =>
         \A i \in 0..(size(mr) - 1) :
           ConstSubscript(mr.captures, i).length # cap_unfinished

\* C24: the validator takes %X, X being neither b nor f nor a digit, as one
\* item of two units: a pattern that begins with %X is accepted or rejected,
\* with the same error and the same depth, as the pattern that has a plain
\* literal in place of the two units.  %[ is such an item and opens no set:
\* the pattern %[a is accepted.
C24_EscapeIsOneItem ==
  (call = "pattern" /\ pt # NoPattern /\ Len(pat) >= 2 /\ pat[1] = "%"
     /\ pat[2] \notin {"b", "f"} /\ ~IsDigitUnit(pat[2])) =>
    LET same(lit) == pt.err = lit.err /\ (pt.err = "none" => pt.depth = lit.depth)
    IN  /\ same(pattern(<<"a">> \o SubSeq(pat, 3, Len(pat))))
        /\ pat = <<"%", "[", "a">> => pt.err = "none"

\* the position past the closing ']' of the set at p: the last unit of the
\* fragment the pattern begins with
SetEnd(p) == CHOOSE e \in (p + 2)..p_end :
               /\ \E item \in SetItems : item = SubSeq(pat, p + 1, e)
               /\ pat[e] = "]"

\* C25: for a bracket set at the start of an accepted pattern the position
\* taken as the end of the item is the same in the validator's scan and in
\* the matcher, whether the subject unit belongs to the set, does not belong
\* to it, or the subject is exhausted, and it is the position just past the
\* set's closing ']'.
C25_SetEndAgrees ==
  (call = "match" /\ mr # NoResult /\ pt.begin < p_end /\ P(pt.begin) = "[") =>
    /\ find_bracket_class_end_ep(pat, pt.begin, p_end).p = SetEnd(pt.begin)
    /\ \A s \in s_begin..s_end : single_match_pr(s, pt.begin).ep = SetEnd(pt.begin)

\* the largest element of a non-empty set of integers
Greatest(S) == CHOOSE x \in S : \A y \in S : y <= x

\* the match state on entry to the item at p: a new one when the pattern
\* begins with the item, the one start_capture hands on when a '(' precedes it
EntryState(q, p) ==
  IF p = pt.begin THEN match_state(NewResult)
  ELSE [match_state(NewResult) EXCEPT
          !.captures = SetLength(SetBegin(@, 0, q), 0, cap_unfinished), !.level = 1]

\* the pattern positions of an item that opens the pattern, or follows the
\* '(' that opens it, and carries one of the given suffixes
ExpandedItems(q, suffixes) ==
  { p \in {pt.begin, pt.begin + 1} :
      /\ p < p_end
      /\ p = pt.begin + 1 => P(pt.begin) = "("
      /\ P(p) \notin {"(", ")", "%", "$"}
      /\ P(single_match_pr(q, p).ep) \in suffixes }

\* two returns of the matcher end at the same position with the same captures
SameReturn(res, best) ==
  /\ res.s = best.s
  /\ res.ms.level = best.ms.level
  /\ \A i \in 0..(best.ms.level - 1) :
       ConstSubscript(res.ms.captures, i) = ConstSubscript(best.ms.captures, i)

\* C26: an item X with suffix '*' or '+', followed by the rest R of the
\* pattern, matches at q iff R matches at q + k for some k between 0 ('*')
\* or 1 ('+') and the length of the maximal run of X from q, and the return
\* is the one of R at q + k for the largest such k.
C26_GreedyTakesLargest ==
  (call = "match" /\ mr # NoResult) =>
    \A q \in s_begin..s_end : \A p \in ExpandedItems(q, {"*", "+"}) :
      LET ep == single_match_pr(q, p).ep
          rest(k) == match(EntryState(q, p), q + k, ep + 1)
          Ks == { k \in (IF P(ep) = "+" THEN 1 ELSE 0)..max_run(q, p, 0) : rest(k).ok }
          greedy(res) ==
            /\ res.ok <=> Ks # {}
            /\ res.ok => SameReturn(res, rest(Greatest(Ks)))
      IN  greedy(match(EntryState(q, p), q, p))

\* C27: an item X with suffix '-', followed by the rest R of the pattern,
\* matches at q iff R matches at q + k for some k >= 0 such that X matches
\* each of the k units from q on, and the return is the one of R at q + k
\* for the smallest such k.
C27_LazyTakesSmallest ==
  (call = "match" /\ mr # NoResult) =>
    \A q \in s_begin..s_end : \A p \in ExpandedItems(q, {"-"}) :
      LET ep == single_match_pr(q, p).ep
          rest(k) == match(EntryState(q, p), q + k, ep + 1)
          Ks == { k \in 0..max_run(q, p, 0) : rest(k).ok }
          lazy(res) ==
            /\ res.ok <=> Ks # {}
            /\ res.ok => SameReturn(res, rest(Least(Ks)))
      IN  lazy(match(EntryState(q, p), q, p))

\* C28: after the result B of a second match has been copy-assigned to the
\* match result A, the capture read from A at every index below B's level
\* is B's capture at that index, whether A held its captures in the inline
\* slots or in a heap buffer before.
C28_AssignedStoreReadsAsSource ==
  (call = "match" /\ got = [err |-> "assigned"]) =>
    /\ mr.level = lex_match.level
    /\ \A i \in 0..(lex_match.level - 1) :
         ConstSubscript(mr.captures, i) = ConstSubscript(lex_match.captures, i)

\* the number of positions i in lo..hi whose subject unit satisfies Is
Count(lo, hi, Is(_)) == Cardinality({ i \in lo..hi : Is(subject[i + 1]) })

\* the end of the balanced string that opens at q: the position past the
\* first unit y after q at which the closing units seen make up for the
\* opening units seen and the one at q, a unit equal to both counting as
\* closing; no such end when q is not below s_end or S[q] is not x
BalancedEnds(q, x, y) ==
  LET closes(c) == c = y
      opens(c) == c = x /\ c # y
      level(j) == 1 + Count(q + 1, j - 1, opens) - Count(q + 1, j, closes)
  IN  IF q < s_end /\ subject[q + 1] = x
      THEN { j + 1 : j \in { j \in (q + 1)..(s_end - 1) :
                               /\ subject[j + 1] = y
                               /\ level(j) = 0
                               /\ \A i \in (q + 1)..(j - 1) : level(i) # 0 } }
      ELSE {}

\* C29: %bxy at the start of the pattern matches at q iff q is below s_end,
\* S[q] is x and the counter of the scan from q + 1 reaches 0 before s_end;
\* the attempt then goes on past that y with the pattern past the four
\* units of %bxy: it succeeds iff the rest matches there and ends where the
\* rest ends.  With x = y the balanced string ends at the next x.
C29_BalancedPair ==
  (call = "match" /\ mr # NoResult /\ pt.begin + 4 <= p_end
     /\ P(pt.begin) = "%" /\ P(pt.begin + 1) = "b") =>
    \A q \in s_begin..s_end :
      LET x == P(pt.begin + 2)
          y == P(pt.begin + 3)
          rest(e) == match(match_state(NewResult), e, pt.begin + 4)
          balanced(res, ends) ==
            /\ res.ok <=> \E e \in ends : rest(e).ok
            /\ res.ok => \A e \in ends : res.s = rest(e).s
            /\ x = y => \A e \in ends :
                 subject[e] = x /\ \A i \in (q + 1)..(e - 2) : subject[i + 1] # x
      IN  balanced(AttemptAt(q), BalancedEnds(q, x, y))

\* %bab has matched the balanced string "ab" that opens at position 1
C29_Witness ==
  /\ call = "match" /\ mr # NoResult
  /\ pat = <<"%", "b", "a", "b">>
  /\ subject = <<"b", "a", "b">>
  /\ mr.pos = <<1, 3>>

\* the number of consecutive '$' units of the subject from position q on
RECURSIVE DollarRun(_)
DollarRun(q) == IF q < s_end /\ subject[q + 1] = "$" THEN 1 + DollarRun(q + 1) ELSE 0

\* C30: the validator accepts a pattern with '$' units in any position.  A
\* '$' that is the last unit of the pattern matches iff the position is
\* s_end and consumes nothing, so that a match of such a pattern ends at
\* s_end.  A '$' that opens the pattern and is not its last unit is the
\* literal '$': without a suffix it takes one '$' unit, with '?' one or
\* none, with '*', '+' or '-' a run of k '$' units (k >= 1 for '+'), the
\* largest k, for '-' the smallest, at which the rest of the pattern matches.
C30_DollarAnchorsOnlyAtEnd ==
  (call = "match" /\ mr # NoResult /\ \E k \in 1..Len(pat) : pat[k] = "$") =>
    /\ pt.err = "none"
    /\ \A q \in s_begin..s_end :
         LET rest(k, r) == match(match_state(NewResult), q + k, r)
             runs(lo, r) == { k \in lo..DollarRun(q) : rest(k, r).ok }
             expanded(res, ks, k, r) == (res.ok <=> ks # {}) /\ (res.ok => res.s = rest(k, r).s)
             dollar(res, p, suffix) ==
               /\ (P(p_end - 1) = "$" /\ res.ok) => res.s = s_end
               /\ (P(p) = "$" /\ p + 1 = p_end) => (res.ok <=> q = s_end) /\ res.s = q
               /\ (P(p) = "$" /\ p + 1 < p_end /\ ~IsSuffix(suffix)) =>
                    expanded(res, runs(1, p + 1) \cap {1}, 1, p + 1)
               /\ (P(p) = "$" /\ suffix = "?") =>
                    expanded(res, runs(0, p + 2) \cap {0, 1},
                             Greatest(runs(0, p + 2) \cap {0, 1}), p + 2)
               /\ (P(p) = "$" /\ suffix \in {"*", "+"}) =>
                    expanded(res, runs(IF suffix = "+" THEN 1 ELSE 0, p + 2),
                             Greatest(runs(IF suffix = "+" THEN 1 ELSE 0, p + 2)), p + 2)
               /\ (P(p) = "$" /\ suffix = "-") =>
                    expanded(res, runs(0, p + 2), Least(runs(0, p + 2)), p + 2)
         IN  dollar(AttemptAt(q), pt.begin, P(pt.begin + 1))

\* $*$ has matched the two '$' units of the subject "$$" as literals and
\* then the end of the subject
C30_Witness ==
  /\ call = "match" /\ mr # NoResult
  /\ pat = <<"$", "*", "$">>
  /\ subject = <<"$", "$">>
  /\ mr.pos = <<0, 2>>

====
